---- MODULE Spec2Model ----
(***************************************************************************)
(* AgenticRAGBot (langgraph_agent.py): the routing / retrieval /           *)
(* generation workflow run by process_query, with the LLM client           *)
(* (openai_client.py), the vector store adapter (embeddings.py) and the    *)
(* telemetry table (models.py) it talks to; ChatbotEvaluator and           *)
(* evaluate_response_sync (evaluator.py); the chat endpoint of ChatbotAPI  *)
(* and its background evaluation task (main.py).                           *)
(*                                                                         *)
(* Python strings whose characters matter (the classifier's output) are    *)
(* sequences of one-character strings.  The assembled context and the      *)
(* prompt are sequences of string pieces, in the order the f-strings and   *)
(* the join lay them out.  Other strings are opaque TLA+ strings.          *)
(***************************************************************************)
EXTENDS Integers, Sequences, FiniteSets, TLC

VARIABLES
    pc,              \* where process_query is: idle, a graph node, END, returned, raised
    state,           \* the AgentState dict handed from node to node
    result,          \* the dict process_query returns
    decision,        \* what generate_structured_response returned to the router
    search_results,  \* what Chroma returned to similarity_search, (doc, score) pairs
    failures,        \* the external calls that raised in this invocation
    visited,         \* graph nodes run by this invocation, in order
    calls,           \* external calls and writes made by this invocation, in order
    telemetry_logs,  \* rows of the telemetry_logs table, in insertion order
    uuid_count,      \* number of uuid4() values generated so far
    invocations,     \* number of process_query calls started so far
    eval_pc,         \* where evaluate_response_sync is: idle, a scorer block, store, returned, raised
    eval_args,       \* the arguments of the evaluate_response call
    results,         \* the results dict of evaluate_response
    metric_score,    \* the .score attribute of each metric object of the evaluator
    measure_log,     \* the measure calls made, in order, with what each produced
    eval_result,     \* the dict evaluate_response_sync returned
    evaluation_metrics, \* rows of the evaluation_metrics table, in insertion order
    constructed,     \* how many of each shared resource have been constructed
    chat_sessions,   \* session ids held by the chat_sessions table
    chat_history,    \* rows of the chat_history table, in insertion order
    requests,        \* the chat requests served: response, background task, steps run
    replies,         \* the answers given to the other endpoints, in order
    feedback_logs,   \* rows of the feedback_logs table, in insertion order
    collection,      \* documents added to the Chroma collection by the serving process
    eval_threads,    \* the evaluate_response_sync calls made from separate threads
    metric_objects   \* the .score of each metric object of each ChatbotEvaluator built

\* the variables of one process_query invocation
workflow_vars == <<pc, state, result, decision, search_results, failures,
                   visited, calls, invocations>>

\* the variables of one evaluate_response_sync call
eval_vars == <<eval_pc, eval_args, results, metric_score, measure_log,
               eval_result>>

\* the variables of the serving process
server_vars == <<chat_sessions, chat_history, requests>>

\* the variables of the other endpoints
api_vars == <<replies, feedback_logs, collection>>

\* the variables of evaluations run from several threads
thread_vars == <<eval_threads, metric_objects>>

vars == <<pc, state, result, decision, search_results, failures, visited,
          calls, telemetry_logs, uuid_count, invocations,
          eval_pc, eval_args, results, metric_score, measure_log,
          eval_result, evaluation_metrics, constructed,
          chat_sessions, chat_history, requests,
          replies, feedback_logs, collection, eval_threads, metric_objects>>

-----------------------------------------------------------------------------
(* Bounds *)

MaxInvocations == 1      \* process_query calls explored in one behaviour
MaxChats == 2            \* chat requests served in one behaviour
ChatHits == 2            \* passages the retriever finds for a chat request
MaxReplies == 2          \* requests to the other endpoints served in one behaviour
MaxRatedChats == 1       \* chat requests served next to feedback and lookups
MaxThreads == 2          \* threads that call evaluate_response_sync
NumPassages == 5         \* passages held by the vector store collection

(* Program constants *)

K == 5                   \* similarity_search(query, k=5)

-----------------------------------------------------------------------------
(* Values *)

NoneValue == "<None>"    \* Python None where a str is optional

Queries == {"q1", "q2"}

SessionIdArgs == {NoneValue, "", "s1"}

Apology == "I apologize, but I'm experiencing technical difficulties. Please try again later."

GeneratorContents == {"answer"}

uuid4(n) == "uuid-" \o ToString(n)

Falsy(v) == v = NoneValue \/ v = ""

Min(a, b) == IF a < b THEN a ELSE b

-----------------------------------------------------------------------------
(* str.lower() and the `in` operator on str *)

UpperCase == <<"A","B","C","D","E","F","G","H","I","J","K","L","M",
               "N","O","P","Q","R","S","T","U","V","W","X","Y","Z">>
LowerCase == <<"a","b","c","d","e","f","g","h","i","j","k","l","m",
               "n","o","p","q","r","s","t","u","v","w","x","y","z">>

LowerChar(c) ==
    IF \E i \in 1..Len(UpperCase) : UpperCase[i] = c
    THEN LowerCase[CHOOSE i \in 1..Len(UpperCase) : UpperCase[i] = c]
    ELSE c

lower(s) == [i \in 1..Len(s) |-> LowerChar(s[i])]

Contains(needle, hay) ==
    \E i \in 0..(Len(hay) - Len(needle)) :
        SubSeq(hay, i + 1, i + Len(needle)) = needle

RetrievalToken == <<"r","e","t","r","i","e","v","a","l">>

-----------------------------------------------------------------------------
(* The classifier: ChatOpenAI.invoke as called by generate_structured_response *)

ClassifierTexts ==
    { <<"r","e","t","r","i","e","v","a","l">>,
      <<"R","e","t","r","i","e","v","a","l">>,
      <<"R","E","T","R","I","E","V","A","L","!">>,
      <<"n","o"," ","r","E","t","r","i","e","v","a","L"," ","x">>,
      <<"d","i","r","e","c","t">>,
      <<"r","e","t","r","i","e","v","e">>,
      <<"r","e","t","r","i","e","v","a"," ","l">>,
      <<>> }

\* a value of response.content: a str, or a list of content blocks
StrValue(text) == [type |-> "str", text |-> text]
ListValue == [type |-> "list", text |-> <<>>]
NoneTypeValue == [type |-> "NoneType", text |-> <<>>]

ClassifierOutcomes ==
    { [raises |-> FALSE, content |-> StrValue(t)] : t \in ClassifierTexts }
    \cup { [raises |-> FALSE, content |-> ListValue],
           [raises |-> TRUE, content |-> NoneTypeValue] }

generate_structured_response(outcome) ==
    IF outcome.raises THEN NoneTypeValue ELSE outcome.content

-----------------------------------------------------------------------------
(* The generator: ChatOpenAI.invoke as called by generate_response *)

GeneratorOutcomes ==
    { [raises |-> FALSE, content |-> c] : c \in GeneratorContents }
    \cup { [raises |-> TRUE, content |-> ""] }

\* generate_response without the fallback string in its except clause
generate_response_no_fallback(outcome) == outcome.content

generate_response(outcome) ==
    IF outcome.raises THEN Apology ELSE outcome.content

-----------------------------------------------------------------------------
(* The retriever: Chroma.similarity_search_with_score and similarity_search *)

PassageIds == 1..NumPassages

Document(p) ==
    [page_content |-> "P" \o ToString(p),
     metadata |-> [source |-> "file" \o ToString(p)]]

\* the collection ranked by distance to the query
Ranking(query) ==
    IF query = "q1"
    THEN [i \in 1..NumPassages |-> i]
    ELSE [i \in 1..NumPassages |-> NumPassages + 1 - i]

\* the n nearest passages with their distances, n at most k
NearestWithScores(query, n) ==
    [i \in 1..n |-> [doc |-> Document(Ranking(query)[i]), score |-> i]]

SearchOutcomes(query, k) ==
    { [raises |-> FALSE, results |-> NearestWithScores(query, n)] :
          n \in 0..Min(k, NumPassages) }
    \cup { [raises |-> TRUE, results |-> <<>>] }

similarity_search(results_with_scores) ==
    [i \in 1..Len(results_with_scores) |->
        [content |-> results_with_scores[i].doc.page_content,
         metadata |-> results_with_scores[i].doc.metadata,
         score |-> results_with_scores[i].score]]

-----------------------------------------------------------------------------
(* AgentState and the graph nodes *)

EmptyState ==
    [messages |-> <<>>, query |-> "", retrieved_documents |-> <<>>,
     context |-> <<>>, response |-> "", session_id |-> "",
     transaction_id |-> "", route_decision |-> ""]

EmptyResult ==
    [response |-> "", transaction_id |-> "", session_id |-> "",
     retrieved_documents |-> <<>>, route_taken |-> ""]

initial_state(query, session_id, transaction_id) ==
    [messages |-> <<>>, query |-> query, retrieved_documents |-> <<>>,
     context |-> <<>>, response |-> "", session_id |-> session_id,
     transaction_id |-> transaction_id, route_decision |-> ""]

\* _router_node comparing the decision without lower()
router_node_case_sensitive(st, d) ==
    [st EXCEPT !.route_decision =
        IF d.type = "str" /\ Contains(RetrievalToken, d.text)
        THEN "retrieval"
        ELSE "direct"]

router_node(st, d) ==
    [st EXCEPT !.route_decision =
        IF d.type = "str" /\ Contains(RetrievalToken, lower(d.text))
        THEN "retrieval"
        ELSE "direct"]

route_decision(st) == st.route_decision

\* the edge mapping sending "direct" to the retrieval node
ConditionalEdge_direct_to_retrieval(key) ==
    CASE key = "retrieval" -> "retrieval"
      [] key = "direct" -> "retrieval"
      [] OTHER -> "raised"

\* add_conditional_edges("router", _route_decision, {...}); a key outside
\* the mapping makes the graph raise
ConditionalEdge(key) ==
    CASE key = "retrieval" -> "retrieval"
      [] key = "direct" -> "direct_response"
      [] OTHER -> "raised"

RECURSIVE context_parts(_, _)
context_parts(documents, start) ==
    IF documents = <<>>
    THEN <<>>
    ELSE <<<<"Document ", ToString(start), ": ", documents[1].content>>>>
         \o context_parts(Tail(documents), start + 1)

RECURSIVE join(_, _)
join(sep, parts) ==
    IF parts = <<>> THEN <<>>
    ELSE IF Len(parts) = 1 THEN parts[1]
    ELSE parts[1] \o <<sep>> \o join(sep, Tail(parts))

\* _retrieval_node with enumerate(documents) counting from 0
retrieval_node_zero_based(st, documents) ==
    [st EXCEPT !.retrieved_documents = documents,
               !.context = join("\n\n", context_parts(documents, 0))]

retrieval_node(st, documents) ==
    [st EXCEPT !.retrieved_documents = documents,
               !.context = join("\n\n", context_parts(documents, 1))]

DictGet(d, key, default) == IF key \in DOMAIN d THEN d[key] ELSE default

\* the row _log_telemetry adds
telemetry_row(st) ==
    [transaction_id |-> st.transaction_id,
     session_id |-> st.session_id,
     query |-> st.query,
     retrieved_documents |->
        [i \in 1..Len(st.retrieved_documents) |->
            [content |-> DictGet(st.retrieved_documents[i], "page_content", ""),
             score |-> DictGet(st.retrieved_documents[i], "score", 0),
             metadata |-> DictGet(st.retrieved_documents[i], "metadata", <<>>)]],
     complete_prompt |-> <<"Query: ", st.query, "\nContext: ">> \o st.context,
     response |-> st.response]

\* db.add + db.commit, or an exception swallowed by the except clause
log_telemetry(logs, st, db_raises) ==
    IF db_raises THEN logs ELSE Append(logs, telemetry_row(st))

\* process_query reading the route from initial_state instead of the result
process_query_result_initial_route(initial, final, transaction_id, session_id) ==
    [response |-> final.response,
     transaction_id |-> transaction_id,
     session_id |-> session_id,
     retrieved_documents |-> final.retrieved_documents,
     route_taken |-> initial.route_decision]

process_query_result(initial, final, transaction_id, session_id) ==
    [response |-> final.response,
     transaction_id |-> transaction_id,
     session_id |-> session_id,
     retrieved_documents |-> final.retrieved_documents,
     route_taken |-> final.route_decision]

-----------------------------------------------------------------------------
(* ChatbotEvaluator: values.  Scores are floats held in thousandths,       *)
(* rounded down.  A text handed to the lexical scorers is held as its      *)
(* whitespace-separated words, each word a sequence of characters; the     *)
(* empty word list is the empty str.                                       *)

NoScore == 0 - 1         \* a metric's .score before its first measure call

ModelGraded ==
    {"answer_relevancy", "faithfulness", "context_precision",
     "context_recall", "context_relevancy", "hallucination"}

initial_results ==
    [answer_relevancy |-> 0, faithfulness |-> 0, context_precision |-> 0,
     context_recall |-> 0, context_relevancy |-> 0, hallucination_score |-> 0,
     bleu_score |-> 0, rouge_score |-> 0]

\* what metric.measure(test_case) can do: set a score or raise
MeasuredScores == {400, 900}

MeasureOutcomes ==
    { [raises |-> FALSE, score |-> v] : v \in MeasuredScores }
    \cup { [raises |-> TRUE, score |-> NoScore] }

\* truth value of a str or None argument
Truthy(v) == v.type = "str" /\ v.text # <<>>

w_the == <<"t","h","e">>
w_The == <<"T","h","e">>
w_sky == <<"s","k","y">>
w_is == <<"i","s">>
w_blue == <<"b","l","u","e">>
w_clouds == <<"c","l","o","u","d","s">>
w_bang == <<"!","!">>

TheSkyIsBlue == <<w_the, w_sky, w_is, w_blue>>
CapitalSkyIsBlue == <<w_The, w_sky, w_is, w_blue>>
TheSkyIs == <<w_the, w_sky, w_is>>
TheSkyIsBlueClouds == <<w_the, w_sky, w_is, w_blue, w_clouds>>
Bangs == <<w_bang, w_bang, w_bang, w_bang>>

EvalResponses ==
    { StrValue(t) : t \in {TheSkyIsBlue, TheSkyIs, Bangs} }

EvalExpectedOutputs ==
    { StrValue(t) : t \in {<<>>, TheSkyIsBlue, CapitalSkyIsBlue, TheSkyIs,
                           TheSkyIsBlueClouds, Bangs} }
    \cup {NoneTypeValue}

EvalContexts ==
    { similarity_search(NearestWithScores("q1", n)) : n \in {0, 2} }

EvalTransactionIds == {NoneValue, "t1"}

NoArgs ==
    [query |-> "", response |-> StrValue(<<>>), retrieved_contexts |-> <<>>,
     expected_output |-> NoneTypeValue, transaction_id |-> NoneValue]

\* shared resources built by ChatbotAPI.__init__ and AgenticRAGBot.__init__
AtStartup == [vector_store |-> 2, llm_client |-> 1, evaluator |-> 0]

\* LLMTestCase(...)
test_case(args) ==
    [input |-> args.query,
     actual_output |-> args.response,
     expected_output |-> IF Truthy(args.expected_output)
                         THEN args.expected_output ELSE args.response,
     retrieval_context |->
        [i \in 1..Len(args.retrieved_contexts) |->
            DictGet(args.retrieved_contexts[i], "content", "")]]

-----------------------------------------------------------------------------
(* calculate_bleu_score: nltk sentence_bleu, one reference, weights        *)
(* (0.25, 0.25, 0.25, 0.25), no smoothing                                  *)

Max(a, b) == IF a > b THEN a ELSE b

ngrams(tokens, n) ==
    [i \in 1..(Len(tokens) - n + 1) |-> SubSeq(tokens, i, i + n - 1)]

Counter(seq, x) == Cardinality({i \in 1..Len(seq) : seq[i] = x})

RECURSIVE ClippedCount(_, _, _)
ClippedCount(grams, hyp_grams, ref_grams) ==
    IF grams = {} THEN 0
    ELSE LET g == CHOOSE x \in grams : TRUE
         IN Min(Counter(hyp_grams, g), Counter(ref_grams, g))
            + ClippedCount(grams \ {g}, hyp_grams, ref_grams)

modified_precision(reference, hypothesis, n) ==
    LET hyp_grams == ngrams(hypothesis, n)
        ref_grams == ngrams(reference, n)
    IN [numerator |-> ClippedCount({hyp_grams[i] : i \in 1..Len(hyp_grams)},
                                   hyp_grams, ref_grams),
        denominator |-> Max(1, Len(hyp_grams))]

\* exp(1 - ref_len / hyp_len) in thousandths, for hyp_len < ref_len <= 5
ExpOneMinusRatio(ref_len, hyp_len) ==
    CASE ref_len = 2 /\ hyp_len = 1 -> 367
      [] ref_len = 3 /\ hyp_len = 1 -> 135
      [] ref_len = 3 /\ hyp_len = 2 -> 606
      [] ref_len = 4 /\ hyp_len = 1 -> 49
      [] ref_len = 4 /\ hyp_len = 2 -> 367
      [] ref_len = 4 /\ hyp_len = 3 -> 716
      [] ref_len = 5 /\ hyp_len = 1 -> 18
      [] ref_len = 5 /\ hyp_len = 2 -> 223
      [] ref_len = 5 /\ hyp_len = 3 -> 513
      [] ref_len = 5 /\ hyp_len = 4 -> 778

brevity_penalty(ref_len, hyp_len) ==
    IF hyp_len >= ref_len THEN 1000
    ELSE IF hyp_len = 0 THEN 0
    ELSE ExpOneMinusRatio(ref_len, hyp_len)

\* floor of the square root of x, x at most 10^6
isqrt(x) == CHOOSE m \in 0..1000 : m * m <= x /\ (m + 1) * (m + 1) > x

sentence_bleu(reference, hypothesis) ==
    LET p == [n \in 1..4 |-> modified_precision(reference, hypothesis, n)]
        num == p[1].numerator * p[2].numerator * p[3].numerator * p[4].numerator
        den == p[1].denominator * p[2].denominator * p[3].denominator
               * p[4].denominator
    IN IF p[1].numerator = 0 THEN 0
       \* a zero higher-order precision is replaced by the smallest positive
       \* float, whose fourth root is about 1.2e-77
       ELSE IF num = 0 THEN 0
       ELSE (brevity_penalty(Len(reference), Len(hypothesis))
             * isqrt(1000 * isqrt((1000000 * num) \div den))) \div 1000

\* str.lower().split() on a text held as its words
lower_split(text) == [i \in 1..Len(text) |-> lower(text[i])]

\* the except clause returns 0.0 when tokenizing or sentence_bleu raises
calculate_bleu_score(reference, candidate, raises) ==
    IF raises THEN 0
    ELSE sentence_bleu(lower_split(reference.text), lower_split(candidate.text))

-----------------------------------------------------------------------------
(* calculate_rouge_score: rouge_score RougeScorer, use_stemmer=True, the   *)
(* rougeL f-measure                                                        *)

Digits == {"0","1","2","3","4","5","6","7","8","9"}

IsAlnum(c) == c \in Digits \/ \E k \in 1..Len(LowerCase) : LowerCase[k] = c

\* the maximal runs of [a-z0-9] in a lower-cased word
RECURSIVE AlnumRuns(_, _)
AlnumRuns(chars, run) ==
    IF chars = <<>>
    THEN IF run = <<>> THEN <<>> ELSE <<run>>
    ELSE IF IsAlnum(Head(chars))
         THEN AlnumRuns(Tail(chars), Append(run, Head(chars)))
         ELSE (IF run = <<>> THEN <<>> ELSE <<run>>)
              \o AlnumRuns(Tail(chars), <<>>)

\* Porter stemmer on the words used here
PorterStem(token) ==
    IF token = w_clouds THEN <<"c","l","o","u","d">> ELSE token

RECURSIVE rouge_tokenize(_)
rouge_tokenize(text) ==
    IF text = <<>> THEN <<>>
    ELSE LET runs == AlnumRuns(lower(Head(text)), <<>>)
         IN [i \in 1..Len(runs) |->
                IF Len(runs[i]) > 3 THEN PorterStem(runs[i]) ELSE runs[i]]
            \o rouge_tokenize(Tail(text))

RECURSIVE lcs_length(_, _)
lcs_length(a, b) ==
    IF a = <<>> \/ b = <<>> THEN 0
    ELSE IF Head(a) = Head(b) THEN 1 + lcs_length(Tail(a), Tail(b))
    ELSE Max(lcs_length(Tail(a), b), lcs_length(a, Tail(b)))

\* 2PR / (P + R) with P = lcs / candidate length, R = lcs / reference length
rougeL_fmeasure(target_tokens, prediction_tokens) ==
    IF target_tokens = <<>> \/ prediction_tokens = <<>> THEN 0
    ELSE (2000 * lcs_length(target_tokens, prediction_tokens))
         \div (Len(target_tokens) + Len(prediction_tokens))

\* the except clause returns 0.0 when the scorer raises
calculate_rouge_score(reference, candidate, raises) ==
    IF raises THEN 0
    ELSE rougeL_fmeasure(rouge_tokenize(reference.text),
                         rouge_tokenize(candidate.text))

\* d[key] = value on a dict
SetItem(d, key, value) == (key :> value) @@ d

\* the row _store_evaluation_results adds
evaluation_row(transaction_id, res) ==
    [transaction_id |-> transaction_id,
     answer_relevancy |-> res.answer_relevancy,
     faithfulness |-> res.faithfulness,
     context_precision |-> res.context_precision,
     context_recall |-> res.context_recall,
     context_relevancy |-> res.context_relevancy,
     hallucination_score |-> res.hallucination_score,
     bleu_score |-> res.bleu_score,
     rouge_score |-> res.rouge_score]

\* loop.run_until_complete raises RuntimeError when the calling thread is
\* already running an event loop
run_until_complete_raises(loop_running) == loop_running

-----------------------------------------------------------------------------
(* Actions *)

Init ==
    /\ pc = "idle"
    /\ state = EmptyState
    /\ result = EmptyResult
    /\ decision = NoneTypeValue
    /\ search_results = <<>>
    /\ failures = {}
    /\ visited = <<>>
    /\ calls = <<>>
    /\ telemetry_logs = <<>>
    /\ uuid_count = 0
    /\ invocations = 0
    /\ eval_pc = "idle"
    /\ eval_args = NoArgs
    /\ results = initial_results
    /\ metric_score = [m \in ModelGraded |-> NoScore]
    /\ measure_log = <<>>
    /\ eval_result = initial_results
    /\ evaluation_metrics = <<>>
    /\ constructed = AtStartup
    /\ chat_sessions = {}
    /\ chat_history = <<>>
    /\ requests = <<>>
    /\ replies = <<>>
    /\ feedback_logs = <<>>
    /\ collection = <<>>
    /\ eval_threads = <<>>
    /\ metric_objects = <<>>

\* process_query up to graph.invoke: ids and the initial state
ProcessQuery ==
    /\ pc \in {"idle", "returned", "raised"}
    /\ invocations < MaxInvocations
    /\ \E query \in Queries, session_arg \in SessionIdArgs :
        LET transaction_id == uuid4(uuid_count + 1)
            session_id == IF Falsy(session_arg) THEN uuid4(uuid_count + 2)
                          ELSE session_arg
        IN /\ state' = initial_state(query, session_id, transaction_id)
           /\ uuid_count' = IF Falsy(session_arg) THEN uuid_count + 2
                            ELSE uuid_count + 1
    /\ pc' = "router"
    /\ result' = EmptyResult
    /\ decision' = NoneTypeValue
    /\ search_results' = <<>>
    /\ failures' = {}
    /\ visited' = <<>>
    /\ calls' = <<>>
    /\ invocations' = invocations + 1
    /\ UNCHANGED <<telemetry_logs, eval_vars, evaluation_metrics, constructed,
                   server_vars, api_vars, thread_vars>>

RouterNode ==
    /\ pc = "router"
    /\ \E outcome \in ClassifierOutcomes :
        LET d == generate_structured_response(outcome)
            st == router_node(state, d)
        IN /\ decision' = d
           /\ failures' = IF outcome.raises THEN failures \cup {"classifier"}
                          ELSE failures
           /\ state' = st
           /\ pc' = ConditionalEdge(route_decision(st))
    /\ visited' = Append(visited, "router")
    /\ calls' = Append(calls, "classifier")
    /\ UNCHANGED <<result, search_results, telemetry_logs, uuid_count, invocations>>
    /\ UNCHANGED <<eval_vars, evaluation_metrics, constructed, server_vars, api_vars, thread_vars>>

RetrievalNode ==
    /\ pc = "retrieval"
    /\ visited' = Append(visited, "retrieval")
    /\ calls' = Append(calls, "retriever")
    /\ \E outcome \in SearchOutcomes(state.query, K) :
        IF outcome.raises
        THEN \* similarity_search has no handler: the exception leaves
             \* _retrieval_node, graph.invoke and process_query
             /\ failures' = failures \cup {"retriever"}
             /\ pc' = "raised"
             /\ UNCHANGED <<state, search_results>>
        ELSE /\ search_results' = outcome.results
             /\ state' = retrieval_node(state, similarity_search(outcome.results))
             /\ pc' = "generation"
             /\ UNCHANGED failures
    /\ UNCHANGED <<result, decision, telemetry_logs, uuid_count, invocations>>
    /\ UNCHANGED <<eval_vars, evaluation_metrics, constructed, server_vars, api_vars, thread_vars>>

GenerationNode ==
    /\ pc = "generation"
    /\ \E outcome \in GeneratorOutcomes, db_raises \in BOOLEAN :
        LET st == [state EXCEPT !.response = generate_response(outcome)]
        IN /\ state' = st
           /\ telemetry_logs' = log_telemetry(telemetry_logs, st, db_raises)
           /\ failures' = failures
                \cup (IF outcome.raises THEN {"generator"} ELSE {})
                \cup (IF db_raises THEN {"telemetry"} ELSE {})
    /\ visited' = Append(visited, "generation")
    /\ calls' = calls \o <<"generator", "set_response", "telemetry">>
    /\ pc' = "END"
    /\ UNCHANGED <<result, decision, search_results, uuid_count, invocations>>
    /\ UNCHANGED <<eval_vars, evaluation_metrics, constructed, server_vars, api_vars, thread_vars>>

\* _direct_response_node without its _log_telemetry call
DirectResponseNode_no_telemetry ==
    /\ pc = "direct_response"
    /\ \E outcome \in GeneratorOutcomes :
        /\ state' = [state EXCEPT !.response = generate_response(outcome),
                                  !.retrieved_documents = <<>>,
                                  !.context = <<>>]
        /\ failures' = failures
                \cup (IF outcome.raises THEN {"generator"} ELSE {})
    /\ visited' = Append(visited, "direct_response")
    /\ calls' = calls \o <<"generator", "set_response">>
    /\ pc' = "END"
    /\ UNCHANGED <<result, decision, search_results, telemetry_logs,
                   uuid_count, invocations>>
    /\ UNCHANGED <<eval_vars, evaluation_metrics, constructed, server_vars, api_vars, thread_vars>>

DirectResponseNode ==
    /\ pc = "direct_response"
    /\ \E outcome \in GeneratorOutcomes, db_raises \in BOOLEAN :
        LET st == [state EXCEPT !.response = generate_response(outcome),
                                !.retrieved_documents = <<>>,
                                !.context = <<>>]
        IN /\ state' = st
           /\ telemetry_logs' = log_telemetry(telemetry_logs, st, db_raises)
           /\ failures' = failures
                \cup (IF outcome.raises THEN {"generator"} ELSE {})
                \cup (IF db_raises THEN {"telemetry"} ELSE {})
    /\ visited' = Append(visited, "direct_response")
    /\ calls' = calls \o <<"generator", "set_response", "telemetry">>
    /\ pc' = "END"
    /\ UNCHANGED <<result, decision, search_results, uuid_count, invocations>>
    /\ UNCHANGED <<eval_vars, evaluation_metrics, constructed, server_vars, api_vars, thread_vars>>

\* graph.invoke has reached END: process_query builds and returns its dict
Return ==
    /\ pc = "END"
    /\ result' = process_query_result(
                    initial_state(state.query, state.session_id, state.transaction_id),
                    state, state.transaction_id, state.session_id)
    /\ visited' = Append(visited, "END")
    /\ calls' = Append(calls, "return")
    /\ pc' = "returned"
    /\ UNCHANGED <<state, decision, search_results, failures, telemetry_logs,
                   uuid_count, invocations>>
    /\ UNCHANGED <<eval_vars, evaluation_metrics, constructed, server_vars, api_vars, thread_vars>>

Next ==
    \/ ProcessQuery
    \/ RouterNode
    \/ RetrievalNode
    \/ GenerationNode
    \/ DirectResponseNode
    \/ Return

Spec == Init /\ [][Next]_vars

-----------------------------------------------------------------------------
(* evaluate_response_sync and ChatbotEvaluator.evaluate_response, one      *)
(* action per scorer block                                                 *)

\* evaluate_response_sync called from a thread that runs no event loop:
\* a new ChatbotEvaluator, a new loop, then evaluate_response up to its
\* first scorer block
EvaluateResponseSync ==
    /\ eval_pc = "idle"
    /\ pc = "idle"
    /\ \E response \in EvalResponses, contexts \in EvalContexts,
          expected \in EvalExpectedOutputs, tid \in EvalTransactionIds :
        eval_args' = [query |-> "q1", response |-> response,
                      retrieved_contexts |-> contexts,
                      expected_output |-> expected, transaction_id |-> tid]
    /\ constructed' = [constructed EXCEPT !.evaluator = @ + 1]
    /\ metric_score' = [m \in ModelGraded |-> NoScore]
    /\ results' = initial_results
    /\ measure_log' = <<>>
    /\ eval_pc' = IF run_until_complete_raises(FALSE) THEN "raised"
                  ELSE "answer_relevancy"
    /\ UNCHANGED <<workflow_vars, server_vars, api_vars, thread_vars, telemetry_logs, uuid_count, eval_result,
                   evaluation_metrics>>

\* try: self.<measured>.measure(test_case); results[key] = self.<read>.score
\* except Exception: print(...)  -- run only when applicable
MeasureBlock(block, measured, read, key, applicable, next) ==
    /\ eval_pc = block
    /\ eval_pc' = next
    /\ IF applicable
       THEN \E outcome \in MeasureOutcomes :
            /\ measure_log' = Append(measure_log,
                    [metric |-> measured, raises |-> outcome.raises,
                     score |-> outcome.score])
            /\ IF outcome.raises
               THEN UNCHANGED <<metric_score, results>>
               ELSE /\ metric_score' = [metric_score EXCEPT ![measured] = outcome.score]
                    /\ results' = SetItem(results, key, metric_score'[read])
       ELSE UNCHANGED <<measure_log, metric_score, results>>
    /\ UNCHANGED <<workflow_vars, server_vars, api_vars, thread_vars, telemetry_logs, uuid_count, eval_args,
                   eval_result, evaluation_metrics, constructed>>

AnswerRelevancy ==
    MeasureBlock("answer_relevancy", "answer_relevancy", "answer_relevancy",
                 "answer_relevancy", TRUE, "faithfulness")

\* the faithfulness block without its "if retrieved_contexts" guard
Faithfulness_unguarded ==
    MeasureBlock("faithfulness", "faithfulness", "faithfulness",
                 "faithfulness", TRUE, "context_precision")

Faithfulness ==
    MeasureBlock("faithfulness", "faithfulness", "faithfulness",
                 "faithfulness", eval_args.retrieved_contexts # <<>>,
                 "context_precision")

ContextPrecision ==
    MeasureBlock("context_precision", "context_precision", "context_precision",
                 "context_precision", eval_args.retrieved_contexts # <<>>,
                 "context_recall")

\* the context recall block reading context_precision.score
ContextRecall_reads_precision ==
    MeasureBlock("context_recall", "context_recall", "context_precision",
                 "context_recall", eval_args.retrieved_contexts # <<>>,
                 "context_relevancy")

ContextRecall ==
    MeasureBlock("context_recall", "context_recall", "context_recall",
                 "context_recall", eval_args.retrieved_contexts # <<>>,
                 "context_relevancy")

ContextRelevancy ==
    MeasureBlock("context_relevancy", "context_relevancy", "context_relevancy",
                 "context_relevancy", eval_args.retrieved_contexts # <<>>,
                 "hallucination")

\* the hallucination block storing its score under the key "hallucination"
Hallucination_metric_name_as_key ==
    MeasureBlock("hallucination", "hallucination", "hallucination",
                 "hallucination", TRUE, "bleu")

Hallucination ==
    MeasureBlock("hallucination", "hallucination", "hallucination",
                 "hallucination_score", TRUE, "bleu")

\* the BLEU block taking its reference from test_case.expected_output
BleuScore_from_test_case ==
    /\ eval_pc = "bleu"
    /\ eval_pc' = "rouge"
    /\ IF Truthy(test_case(eval_args).expected_output)
       THEN \E raises \in BOOLEAN :
            LET score == calculate_bleu_score(test_case(eval_args).expected_output,
                                              eval_args.response, raises)
            IN /\ results' = SetItem(results, "bleu_score", score)
               /\ measure_log' = Append(measure_log,
                    [metric |-> "bleu", raises |-> raises, score |-> score])
       ELSE UNCHANGED <<results, measure_log>>
    /\ UNCHANGED <<workflow_vars, server_vars, api_vars, thread_vars, telemetry_logs, uuid_count, eval_args,
                   metric_score, eval_result, evaluation_metrics, constructed>>

\* if expected_output: results['bleu_score'] = calculate_bleu_score(...)
BleuScore ==
    /\ eval_pc = "bleu"
    /\ eval_pc' = "rouge"
    /\ IF Truthy(eval_args.expected_output)
       THEN \E raises \in BOOLEAN :
            LET score == calculate_bleu_score(eval_args.expected_output,
                                              eval_args.response, raises)
            IN /\ results' = SetItem(results, "bleu_score", score)
               /\ measure_log' = Append(measure_log,
                    [metric |-> "bleu", raises |-> raises, score |-> score])
       ELSE UNCHANGED <<results, measure_log>>
    /\ UNCHANGED <<workflow_vars, server_vars, api_vars, thread_vars, telemetry_logs, uuid_count, eval_args,
                   metric_score, eval_result, evaluation_metrics, constructed>>

\* if expected_output: results['rouge_score'] = calculate_rouge_score(...)
RougeScore ==
    /\ eval_pc = "rouge"
    /\ eval_pc' = "store"
    /\ IF Truthy(eval_args.expected_output)
       THEN \E raises \in BOOLEAN :
            LET score == calculate_rouge_score(eval_args.expected_output,
                                               eval_args.response, raises)
            IN /\ results' = SetItem(results, "rouge_score", score)
               /\ measure_log' = Append(measure_log,
                    [metric |-> "rouge", raises |-> raises, score |-> score])
       ELSE UNCHANGED <<results, measure_log>>
    /\ UNCHANGED <<workflow_vars, server_vars, api_vars, thread_vars, telemetry_logs, uuid_count, eval_args,
                   metric_score, eval_result, evaluation_metrics, constructed>>

\* _store_evaluation_results without its try/except
StoreEvaluationResults_unguarded ==
    /\ eval_pc = "store"
    /\ IF ~Falsy(eval_args.transaction_id)
       THEN \E db_raises \in BOOLEAN :
            /\ evaluation_metrics' =
                  IF db_raises THEN evaluation_metrics
                  ELSE Append(evaluation_metrics,
                              evaluation_row(eval_args.transaction_id, results))
            /\ measure_log' = Append(measure_log,
                    [metric |-> "store", raises |-> db_raises, score |-> 0])
            /\ eval_result' = IF db_raises THEN eval_result ELSE results
            /\ eval_pc' = IF db_raises THEN "raised" ELSE "returned"
       ELSE /\ UNCHANGED <<evaluation_metrics, measure_log>>
            /\ eval_result' = results
            /\ eval_pc' = "returned"
    /\ UNCHANGED <<workflow_vars, server_vars, api_vars, thread_vars, telemetry_logs, uuid_count, eval_args,
                   results, metric_score, constructed>>

\* if transaction_id: _store_evaluation_results(...); return results
StoreEvaluationResults ==
    /\ eval_pc = "store"
    /\ IF ~Falsy(eval_args.transaction_id)
       THEN \E db_raises \in BOOLEAN :
            /\ evaluation_metrics' =
                  IF db_raises THEN evaluation_metrics
                  ELSE Append(evaluation_metrics,
                              evaluation_row(eval_args.transaction_id, results))
            /\ measure_log' = Append(measure_log,
                    [metric |-> "store", raises |-> db_raises, score |-> 0])
       ELSE UNCHANGED <<evaluation_metrics, measure_log>>
    /\ eval_result' = results
    /\ eval_pc' = "returned"
    /\ UNCHANGED <<workflow_vars, server_vars, api_vars, thread_vars, telemetry_logs, uuid_count, eval_args,
                   results, metric_score, constructed>>

NextEval ==
    \/ EvaluateResponseSync
    \/ AnswerRelevancy
    \/ Faithfulness
    \/ ContextPrecision
    \/ ContextRecall
    \/ ContextRelevancy
    \/ Hallucination
    \/ BleuScore
    \/ RougeScore
    \/ StoreEvaluationResults

SpecEval == Init /\ [][NextEval]_vars

\* one caller thread outside any event loop: a call of process_query or a
\* call of evaluate_response_sync, never one inside the other
NextPersist ==
    \/ (eval_pc = "idle" /\ Next)
    \/ NextEval

SpecPersist == Init /\ [][NextPersist]_vars

-----------------------------------------------------------------------------
(* ChatbotAPI: the chat endpoint and its background evaluation task.  Both *)
(* are coroutines without an await, so each runs to its end on the event   *)
(* loop before another handler or task starts.                             *)

UnknownSession == "s-unknown"

\* what the external calls of one chat request can do: the classifier
\* answers with either route, the retriever finds ChatHits passages or
\* raises, the generator answers
ChatClassifierOutcomes ==
    { o \in ClassifierOutcomes :
        o.content \in {StrValue(RetrievalToken),
                       StrValue(<<"d","i","r","e","c","t">>)} }

ChatSearchOutcomes(query) ==
    { o \in SearchOutcomes(query, K) : o.raises \/ Len(o.results) = ChatHits }

ChatGeneratorOutcomes == { o \in GeneratorOutcomes : ~o.raises }

\* graph.invoke(initial_state): the nodes run one after another
graph_invoke(initial, classifier, search, generator) ==
    LET routed == router_node(initial, generate_structured_response(classifier))
        node == ConditionalEdge(route_decision(routed))
        retrieved == retrieval_node(routed, similarity_search(search.results))
    IN IF node = "retrieval"
       THEN [raises |-> search.raises,
             final |-> [retrieved EXCEPT !.response = generate_response(generator)]]
       ELSE [raises |-> node # "direct_response",
             final |-> [routed EXCEPT !.response = generate_response(generator),
                                      !.retrieved_documents = <<>>,
                                      !.context = <<>>]]

\* the row pair _store_chat_history adds
chat_history_rows(session_id, user_message, assistant_response) ==
    << [session_id |-> session_id, message_type |-> "user",
        message |-> user_message],
       [session_id |-> session_id, message_type |-> "assistant",
        message |-> assistant_response] >>

NoTask ==
    [query |-> "", response |-> "", retrieved_contexts |-> <<>>,
     transaction_id |-> ""]

\* add_task passing the session id where the transaction id belongs
evaluation_task_with_session_id(message, res) ==
    [query |-> message, response |-> res.response,
     retrieved_contexts |-> res.retrieved_documents,
     transaction_id |-> res.session_id]

\* the arguments add_task binds to evaluate_response_async
evaluation_task(message, res) ==
    [query |-> message, response |-> res.response,
     retrieved_contexts |-> res.retrieved_documents,
     transaction_id |-> res.transaction_id]

\* except Exception as e: raise HTTPException(status_code=500, ...)
ServerError(message, session_arg, steps) ==
    [message |-> message, session_id |-> session_arg, status |-> 500,
     body |-> EmptyResult, task |-> NoTask, task_status |-> "none",
     steps |-> Append(steps, "HTTPException")]

\* what one run of the chat handler does to the tables and what it answers
ChatOutcome(message, session_arg, classifier, search, generator, db_raises) ==
    LET create == Falsy(session_arg)
        found == session_arg \in chat_sessions
        session_id == IF create THEN uuid4(uuid_count + 1) ELSE session_arg
        uuids == IF create THEN uuid_count + 1 ELSE uuid_count
        transaction_id == uuid4(uuids + 1)
        initial == initial_state(message, session_id, transaction_id)
        run == graph_invoke(initial, classifier, search, generator)
        res == process_query_result(initial, run.final, transaction_id, session_id)
    IN IF ~create /\ ~found
       THEN \* _get_or_create_session raises HTTPException(404)
            [sessions |-> chat_sessions,
             uuids |-> uuid_count,
             telemetry |-> telemetry_logs,
             history |-> chat_history,
             request |-> ServerError(message, session_arg,
                            <<"get_or_create_session">>)]
       ELSE IF run.raises
       THEN [sessions |-> chat_sessions \cup {session_id},
             uuids |-> uuids + 1,
             telemetry |-> telemetry_logs,
             history |-> chat_history,
             request |-> ServerError(message, session_arg,
                            <<"get_or_create_session", "process_query">>)]
       ELSE [sessions |-> chat_sessions \cup {session_id},
             uuids |-> uuids + 1,
             telemetry |-> log_telemetry(telemetry_logs, run.final, db_raises),
             history |-> chat_history
                \o chat_history_rows(session_id, message, res.response),
             request |->
                [message |-> message, session_id |-> session_arg,
                 status |-> 200, body |-> res,
                 task |-> evaluation_task(message, res),
                 task_status |-> "pending",
                 steps |-> <<"get_or_create_session", "process_query",
                             "store_chat_history", "add_task",
                             "ChatResponse">>]]

\* the session ids a client can send: none, a made-up one, one of a session
\* that exists, or one of a session that has been deleted since
ChatSessionArgs ==
    {NoneValue, UnknownSession} \cup chat_sessions
    \cup { replies[i].arg :
              i \in {j \in 1..Len(replies) :
                        replies[j].endpoint = "delete_session"} }

\* evaluate_response_async up to the point where evaluate_response_sync
\* either raises or enters evaluate_response
BackgroundSteps ==
    <<"evaluate_response_async", "ChatbotEvaluator", "run_until_complete">>

\* the chat handler awaiting the evaluation before it builds its response
Chat_evaluates_before_responding ==
    /\ Len(requests) < MaxChats
    /\ \E message \in Queries,
          session_arg \in ChatSessionArgs,
          classifier \in ChatClassifierOutcomes,
          generator \in ChatGeneratorOutcomes,
          db_raises \in BOOLEAN :
       \E search \in ChatSearchOutcomes(message) :
        LET o == ChatOutcome(message, session_arg, classifier, search,
                             generator, db_raises)
            ok == o.request.status = 200
        IN /\ chat_sessions' = o.sessions
           /\ uuid_count' = o.uuids
           /\ telemetry_logs' = o.telemetry
           /\ chat_history' = o.history
           /\ requests' = Append(requests,
                 IF ok
                 THEN [o.request EXCEPT
                         !.task_status = "done",
                         !.steps = <<"get_or_create_session", "process_query",
                                     "store_chat_history">>
                                   \o BackgroundSteps
                                   \o <<"RuntimeError", "ChatResponse">>]
                 ELSE o.request)
           /\ constructed' = IF ok
                             THEN [constructed EXCEPT !.evaluator = @ + 1]
                             ELSE constructed
    /\ UNCHANGED <<workflow_vars, api_vars, thread_vars, eval_vars, evaluation_metrics>>

\* POST /chat
Chat ==
    /\ Len(requests) < MaxChats
    /\ \E message \in Queries,
          session_arg \in ChatSessionArgs,
          classifier \in ChatClassifierOutcomes,
          generator \in ChatGeneratorOutcomes,
          db_raises \in BOOLEAN :
       \E search \in ChatSearchOutcomes(message) :
        LET o == ChatOutcome(message, session_arg, classifier, search,
                             generator, db_raises)
        IN /\ chat_sessions' = o.sessions
           /\ uuid_count' = o.uuids
           /\ telemetry_logs' = o.telemetry
           /\ chat_history' = o.history
           /\ requests' = Append(requests, o.request)
    /\ UNCHANGED <<workflow_vars, api_vars, thread_vars, eval_vars, evaluation_metrics, constructed>>

\* the background task of an answered request: evaluate_response_async
\* calls evaluate_response_sync on the thread that runs the event loop
EvaluateResponseAsync ==
    \E i \in 1..Len(requests) :
        /\ requests[i].task_status = "pending"
        /\ constructed' = [constructed EXCEPT !.evaluator = @ + 1]
        /\ IF run_until_complete_raises(TRUE)
           THEN \* RuntimeError, printed by the except clause
                /\ requests' = [requests EXCEPT
                        ![i].task_status = "done",
                        ![i].steps = @ \o BackgroundSteps \o <<"RuntimeError">>]
                /\ UNCHANGED eval_vars
           ELSE /\ requests' = [requests EXCEPT
                        ![i].task_status = "running",
                        ![i].steps = @ \o BackgroundSteps
                                       \o <<"evaluate_response">>]
                /\ eval_args' =
                      [query |-> requests[i].task.query,
                       response |-> requests[i].task.response,
                       retrieved_contexts |-> requests[i].task.retrieved_contexts,
                       expected_output |-> NoneTypeValue,
                       transaction_id |-> requests[i].task.transaction_id]
                /\ metric_score' = [m \in ModelGraded |-> NoScore]
                /\ results' = initial_results
                /\ measure_log' = <<>>
                /\ eval_pc' = "answer_relevancy"
                /\ UNCHANGED eval_result
        /\ UNCHANGED <<workflow_vars, api_vars, thread_vars, telemetry_logs,
                       uuid_count, evaluation_metrics, chat_sessions,
                       chat_history>>

NextChat ==
    \/ Chat
    \/ EvaluateResponseAsync

SpecChat == Init /\ [][NextChat]_vars

-----------------------------------------------------------------------------
(* ChatbotAPI: the feedback, evaluation lookup, session and document       *)
(* endpoints.  Like chat, each handler is a coroutine without an await.    *)

UnknownTransaction == "t-unknown"

\* the transaction ids a client can send: those it was given, and a made-up one
TransactionIdArgs ==
    { requests[i].body.transaction_id :
          i \in {j \in 1..Len(requests) : requests[j].status = 200} }
    \cup {UnknownTransaction}

DocumentContents == {"text", ""}

NoException == [status_code |-> 0, detail |-> ""]

\* raise HTTPException(status_code=..., detail=...)
HTTPException(status_code, detail) ==
    [status_code |-> status_code, detail |-> detail]

\* what a handler answers: its return value, or the HTTPException(500) its
\* except clause builds from the exception it caught
Returned(endpoint, arg, message, value) ==
    [endpoint |-> endpoint, arg |-> arg, status |-> 200,
     message |-> message, value |-> value, caught |-> NoException]

WrappedIn500(endpoint, arg, exception) ==
    [endpoint |-> endpoint, arg |-> arg, status |-> 500,
     message |-> "", value |-> <<>>, caught |-> exception]

\* db.query(Model).filter(Model.transaction_id == transaction_id).first()
first(rows, transaction_id) ==
    LET hits == {r \in 1..Len(rows) : rows[r].transaction_id = transaction_id}
    IN IF hits = {} THEN <<>>
       ELSE <<rows[CHOOSE r \in hits : \A q \in hits : r <= q]>>

\* submit_feedback storing the prompt in place of the response
feedback_row_from_prompt(transaction_id, telemetry, feedback, feedback_text) ==
    [transaction_id |-> transaction_id,
     query |-> telemetry.query,
     llm_response |-> telemetry.complete_prompt,
     feedback |-> feedback,
     feedback_text |-> feedback_text]

\* the row submit_feedback adds
feedback_row(transaction_id, telemetry, feedback, feedback_text) ==
    [transaction_id |-> transaction_id,
     query |-> telemetry.query,
     llm_response |-> telemetry.response,
     feedback |-> feedback,
     feedback_text |-> feedback_text]

\* POST /feedback
SubmitFeedback ==
    /\ Len(replies) < MaxReplies
    /\ \E transaction_id \in TransactionIdArgs :
        LET telemetry == first(telemetry_logs, transaction_id)
        IN IF telemetry = <<>>
           THEN \* HTTPException(404) is raised inside the try block
                /\ replies' = Append(replies,
                      WrappedIn500("feedback", transaction_id,
                          HTTPException(404, "Transaction not found")))
                /\ UNCHANGED feedback_logs
           ELSE /\ feedback_logs' = Append(feedback_logs,
                      feedback_row(transaction_id, telemetry[1], "positive",
                                   NoneValue))
                /\ replies' = Append(replies,
                      Returned("feedback", transaction_id,
                               "Feedback submitted successfully", <<>>))
    /\ UNCHANGED <<workflow_vars, eval_vars, server_vars, thread_vars,
                   telemetry_logs, uuid_count, evaluation_metrics,
                   constructed, collection>>

\* GET /evaluation/{transaction_id}
GetEvaluationMetrics ==
    /\ Len(replies) < MaxReplies
    /\ \E transaction_id \in TransactionIdArgs :
        LET metrics == first(evaluation_metrics, transaction_id)
        IN replies' = Append(replies,
              IF metrics = <<>>
              THEN WrappedIn500("evaluation", transaction_id,
                       HTTPException(404, "Evaluation metrics not found"))
              ELSE Returned("evaluation", transaction_id, "", metrics))
    /\ UNCHANGED <<workflow_vars, eval_vars, server_vars, thread_vars,
                   telemetry_logs, uuid_count, evaluation_metrics,
                   constructed, feedback_logs, collection>>

\* delete_session removing the chat_sessions row only
keep_history_of_session(history, session_id) == history

\* db.query(ChatHistory).filter(ChatHistory.session_id == session_id).delete()
delete_history_of_session(history, session_id) ==
    SelectSeq(history, LAMBDA row : row.session_id # session_id)

\* DELETE /sessions/{session_id}
DeleteSession ==
    /\ Len(replies) < MaxReplies
    /\ \E session_id \in chat_sessions \cup {UnknownSession} :
        /\ chat_history' = delete_history_of_session(chat_history, session_id)
        /\ chat_sessions' = chat_sessions \ {session_id}
        /\ replies' = Append(replies,
              Returned("delete_session", session_id,
                       "Session deleted successfully", <<>>))
    /\ UNCHANGED <<workflow_vars, eval_vars, thread_vars, telemetry_logs,
                   uuid_count, evaluation_metrics, constructed, requests,
                   feedback_logs, collection>>

\* ChromaVectorStore.add_documents: a list of Document objects or ValueError
add_documents(stored, documents, ids) ==
    IF \A i \in 1..Len(documents) : documents[i].type = "Document"
    THEN [raises |-> FALSE,
          stored |-> stored \o [i \in 1..Len(documents) |->
                        [id |-> ids[i], page_content |-> documents[i].text]]]
    ELSE [raises |-> TRUE, stored |-> stored]

\* ChromaVectorStore.get_collection_count
get_collection_count(stored) == NumPassages + Len(stored)

\* POST /documents: the request's content goes to add_documents as a str
AddDocument ==
    /\ Len(replies) < MaxReplies
    /\ \E content \in DocumentContents :
        LET doc_id == uuid4(uuid_count + 1)
            added == add_documents(collection,
                        <<[type |-> "str", text |-> content]>>, <<doc_id>>)
        IN /\ uuid_count' = uuid_count + 1
           /\ collection' = added.stored
           /\ replies' = Append(replies,
                 IF added.raises
                 THEN WrappedIn500("add_document", content,
                          [status_code |-> 0,
                           detail |-> "documents must be a list of LangChain Document objects."])
                 ELSE Returned("add_document", content,
                               "Document added successfully", <<doc_id>>))
    /\ UNCHANGED <<workflow_vars, eval_vars, server_vars, thread_vars,
                   telemetry_logs, evaluation_metrics, constructed,
                   feedback_logs>>

\* GET /documents/count
GetDocumentCount ==
    /\ Len(replies) < MaxReplies
    /\ replies' = Append(replies,
          Returned("document_count", "", "",
                   <<get_collection_count(collection)>>))
    /\ UNCHANGED <<workflow_vars, eval_vars, server_vars, thread_vars,
                   telemetry_logs, uuid_count, evaluation_metrics,
                   constructed, feedback_logs, collection>>

\* a client that chats and then rates, looks up and adds documents
NextApi ==
    \/ (Len(requests) < MaxRatedChats /\ Chat)
    \/ SubmitFeedback
    \/ GetEvaluationMetrics
    \/ AddDocument
    \/ GetDocumentCount

SpecApi == Init /\ [][NextApi]_vars

\* clients that chat and delete sessions
NextSessions ==
    \/ Chat
    \/ DeleteSession

SpecSessions == Init /\ [][NextSessions]_vars

-----------------------------------------------------------------------------
(* evaluate_response_sync called from several threads, none of which runs  *)
(* an event loop.  A thread can be preempted between any two bytecodes, in *)
(* particular between metric.measure(test_case), which waits for the judge *)
(* model, and the read of metric.score; each scorer block is therefore two *)
(* steps.                                                                  *)

\* the interactions the threads evaluate
Interactions ==
    { [query |-> "q1", response |-> StrValue(TheSkyIsBlue),
       retrieved_contexts |-> similarity_search(NearestWithScores("q1", 2)),
       expected_output |-> NoneTypeValue, transaction_id |-> "t1"],
      [query |-> "q2", response |-> StrValue(TheSkyIs),
       retrieved_contexts |-> similarity_search(NearestWithScores("q2", 2)),
       expected_output |-> NoneTypeValue, transaction_id |-> "t2"] }

\* the judge model's verdict on a test case: a score that depends on the
\* test case, or an exception
measure(metric, case) ==
    IF case.input = "q2" /\ metric = "faithfulness"
    THEN [raises |-> TRUE, score |-> NoScore]
    ELSE [raises |-> FALSE,
          score |-> IF case.input = "q1" THEN 400 ELSE 900]

\* the six model-graded blocks of evaluate_response in program order
ScorerBlocks ==
    << [metric |-> "answer_relevancy", key |-> "answer_relevancy",
        guarded |-> FALSE],
       [metric |-> "faithfulness", key |-> "faithfulness", guarded |-> TRUE],
       [metric |-> "context_precision", key |-> "context_precision",
        guarded |-> TRUE],
       [metric |-> "context_recall", key |-> "context_recall",
        guarded |-> TRUE],
       [metric |-> "context_relevancy", key |-> "context_relevancy",
        guarded |-> TRUE],
       [metric |-> "hallucination", key |-> "hallucination_score",
        guarded |-> FALSE] >>

StoreBlock == Len(ScorerBlocks) + 1
ReturnedBlock == Len(ScorerBlocks) + 2

\* one ChatbotEvaluator used by every call
shared_evaluator(instances) == 1

\* evaluator = ChatbotEvaluator(): each call builds its own metric objects
new_evaluator(instances) == instances + 1

\* evaluate_response_sync up to the first scorer block of evaluate_response
StartThread ==
    /\ Len(eval_threads) < MaxThreads
    /\ \E args \in Interactions :
        LET evaluator == new_evaluator(Len(metric_objects))
        IN /\ metric_objects' =
                 IF evaluator > Len(metric_objects)
                 THEN Append(metric_objects, [m \in ModelGraded |-> NoScore])
                 ELSE metric_objects
           /\ eval_threads' = Append(eval_threads,
                 [args |-> args, evaluator |-> evaluator, block |-> 1,
                  phase |-> "measure", results |-> initial_results,
                  returned |-> <<>>])
    /\ constructed' = [constructed EXCEPT !.evaluator = @ + 1]
    /\ UNCHANGED <<workflow_vars, eval_vars, server_vars, api_vars,
                   telemetry_logs, uuid_count, evaluation_metrics>>

\* self.<metric>.measure(test_case), skipped when the block's guard fails;
\* an exception ends the block
Measure ==
    /\ \E t \in 1..Len(eval_threads) :
        LET thread == eval_threads[t]
        IN /\ thread.block <= Len(ScorerBlocks)
           /\ thread.phase = "measure"
           /\ LET block == ScorerBlocks[thread.block]
                  outcome == measure(block.metric, test_case(thread.args))
              IN IF (block.guarded /\ thread.args.retrieved_contexts = <<>>)
                    \/ outcome.raises
                 THEN /\ eval_threads' = [eval_threads EXCEPT
                            ![t].block = @ + 1]
                      /\ UNCHANGED metric_objects
                 ELSE /\ metric_objects' = [metric_objects EXCEPT
                            ![thread.evaluator][block.metric] = outcome.score]
                      /\ eval_threads' = [eval_threads EXCEPT
                            ![t].phase = "read"]
    /\ UNCHANGED <<workflow_vars, eval_vars, server_vars, api_vars,
                   telemetry_logs, uuid_count, evaluation_metrics,
                   constructed>>

\* results[key] = self.<metric>.score
ReadScore ==
    /\ \E t \in 1..Len(eval_threads) :
        LET thread == eval_threads[t]
        IN /\ thread.block <= Len(ScorerBlocks)
           /\ thread.phase = "read"
           /\ LET block == ScorerBlocks[thread.block]
              IN eval_threads' = [eval_threads EXCEPT
                    ![t].results = SetItem(@, block.key,
                        metric_objects[thread.evaluator][block.metric]),
                    ![t].block = @ + 1,
                    ![t].phase = "measure"]
    /\ UNCHANGED <<workflow_vars, eval_vars, server_vars, api_vars,
                   telemetry_logs, uuid_count, evaluation_metrics,
                   constructed, metric_objects>>

\* the lexical scores when expected_output is given, the database row when
\* transaction_id is given, then return results
StoreAndReturn ==
    /\ \E t \in 1..Len(eval_threads) :
        LET thread == eval_threads[t]
            args == thread.args
            scored ==
                IF Truthy(args.expected_output)
                THEN SetItem(SetItem(thread.results, "bleu_score",
                        calculate_bleu_score(args.expected_output,
                                             args.response, FALSE)),
                        "rouge_score",
                        calculate_rouge_score(args.expected_output,
                                              args.response, FALSE))
                ELSE thread.results
        IN /\ thread.block = StoreBlock
           /\ IF ~Falsy(args.transaction_id)
              THEN \E db_raises \in BOOLEAN :
                   evaluation_metrics' =
                       IF db_raises THEN evaluation_metrics
                       ELSE Append(evaluation_metrics,
                                   evaluation_row(args.transaction_id, scored))
              ELSE UNCHANGED evaluation_metrics
           /\ eval_threads' = [eval_threads EXCEPT
                 ![t].results = scored,
                 ![t].returned = <<scored>>,
                 ![t].block = ReturnedBlock]
    /\ UNCHANGED <<workflow_vars, eval_vars, server_vars, api_vars,
                   telemetry_logs, uuid_count, constructed, metric_objects>>

NextThreads ==
    \/ StartThread
    \/ Measure
    \/ ReadScore
    \/ StoreAndReturn

SpecThreads == Init /\ [][NextThreads]_vars

-----------------------------------------------------------------------------
(* Helpers for the properties *)

Occurrences(seq, x) == Cardinality({i \in 1..Len(seq) : seq[i] = x})

IndexOf(seq, x) == CHOOSE i \in 1..Len(seq) : seq[i] = x

Routes == {"retrieval", "direct"}

\* the rows this invocation added to telemetry_logs
OwnRows ==
    {i \in 1..Len(telemetry_logs) :
        telemetry_logs[i].transaction_id = state.transaction_id}

\* c is the lower-case letter t or its upper-case form
SameLetter(c, t) ==
    \E k \in 1..Len(LowerCase) :
        LowerCase[k] = t /\ (c = LowerCase[k] \/ c = UpperCase[k])

\* the classifier's output is text holding "retrieval" in some mix of cases
SaysRetrieval(d) ==
    /\ d.type = "str"
    /\ \E i \in 1..Len(d.text) :
        /\ i + Len(RetrievalToken) - 1 <= Len(d.text)
        /\ \A j \in 1..Len(RetrievalToken) :
              SameLetter(d.text[i + j - 1], RetrievalToken[j])

RouterHasRun == Occurrences(visited, "router") = 1

ScoreKeys ==
    {"answer_relevancy", "faithfulness", "context_precision", "context_recall",
     "context_relevancy", "hallucination_score", "bleu_score", "rouge_score"}

ContextScorers ==
    {"faithfulness", "context_precision", "context_recall", "context_relevancy"}

\* the key of the result under which a scorer's value is stored
ResultKey(metric) ==
    CASE metric = "hallucination" -> "hallucination_score"
      [] metric = "bleu" -> "bleu_score"
      [] metric = "rouge" -> "rouge_score"
      [] OTHER -> metric

\* the invocations of a scorer recorded during this evaluate call
Invocations(metric) ==
    {i \in 1..Len(measure_log) : measure_log[i].metric = metric}

\* the scorers that apply to the arguments of this evaluate call
Applicable ==
    {"answer_relevancy", "hallucination"}
    \cup (IF eval_args.retrieved_contexts # <<>> THEN ContextScorers ELSE {})
    \cup (IF Truthy(eval_args.expected_output) THEN {"bleu", "rouge"} ELSE {})

\* the blocks of evaluate_response in program order, and the position of
\* the call within them
BlockOrder ==
    <<"answer_relevancy", "faithfulness", "context_precision",
      "context_recall", "context_relevancy", "hallucination", "bleu", "rouge",
      "store", "returned">>

\* the chat requests answered with status 200
Answered == {i \in 1..Len(requests) : requests[i].status = 200}

\* the telemetry rows carrying a transaction id
TelemetryRowsOf(transaction_id) ==
    {r \in 1..Len(telemetry_logs) :
        telemetry_logs[r].transaction_id = transaction_id}

BlockDone(metric) ==
    /\ eval_pc \in {BlockOrder[i] : i \in 1..Len(BlockOrder)}
    /\ IndexOf(BlockOrder, eval_pc) > IndexOf(BlockOrder, metric)

-----------------------------------------------------------------------------
(* Properties *)

\* C1: process_query ends every invocation, whatever the query and whichever
\* of the classifier, retriever, generator and telemetry sink fail, by
\* returning a record with the five result fields; it never ends in an
\* exception.
ProcessNeverRaises ==
    /\ pc # "raised"
    /\ pc = "returned" =>
          DOMAIN result = {"response", "transaction_id", "session_id",
                           "retrieved_documents", "route_taken"}

\* C2: once the router has run, the route is "retrieval" exactly when the
\* classifier returned text holding the token "retrieval" in any mix of
\* cases; for every other outcome (other text, empty text, a non-text value,
\* a failed call) the route is "direct", the invocation does not raise, and
\* what it returns carries route "direct".
RouterFollowsClassifier ==
    RouterHasRun =>
        /\ (state.route_decision = "retrieval") <=> SaysRetrieval(decision)
        /\ ~SaysRetrieval(decision) =>
              /\ state.route_decision = "direct"
              /\ pc \in {"direct_response", "END", "returned"}
              /\ pc = "returned" => result.route_taken = "direct"
        /\ "classifier" \in failures => state.route_decision = "direct"

\* C2 witness: the classifier answered "RETRIEVAL!" and the invocation
\* returned with route retrieval.
RouterFollowsClassifierWitness ==
    /\ pc = "returned"
    /\ decision = StrValue(<<"R","E","T","R","I","E","V","A","L","!">>)
    /\ result.route_taken = "retrieval"

\* C3: the route is "retrieval" or "direct" from the moment the response is
\* set, and in the record returned to the caller; it is never the unset "".
RouteNeverUnset ==
    /\ Occurrences(calls, "set_response") > 0 => state.route_decision \in Routes
    /\ pc = "returned" => result.route_taken \in Routes

RouteNeverUnsetWitness ==
    /\ pc = "returned"
    /\ Occurrences(calls, "set_response") = 1
    /\ result.route_taken = "retrieval"
    /\ state.route_decision = "retrieval"

\* C4: when process_query returns with route "direct", the returned
\* retrieved_documents is the empty list, the context in the state is the
\* empty string, and the telemetry row, if written, has no documents and an
\* empty context in its prompt.
DirectHasNoDocuments ==
    (pc = "returned" /\ result.route_taken = "direct") =>
        /\ result.retrieved_documents = <<>>
        /\ state.context = <<>>
        /\ \A i \in OwnRows :
              /\ telemetry_logs[i].retrieved_documents = <<>>
              /\ telemetry_logs[i].complete_prompt =
                    <<"Query: ", state.query, "\nContext: ">>

DirectHasNoDocumentsWitness ==
    /\ pc = "returned"
    /\ result.route_taken = "direct"
    /\ OwnRows # {}
    /\ decision = StrValue(<<"d","i","r","e","c","t">>)

\* C5: every invocation visits router, retrieval, generation, END or router,
\* direct_response, END, as the route says, no node twice; the classifier and
\* the generator are each called exactly once, the retriever once on route
\* retrieval and never on route direct.
TwoNodeOrders ==
    pc \in {"returned", "raised"} =>
        /\ state.route_decision = "retrieval" =>
              /\ visited = <<"router", "retrieval", "generation", "END">>
              /\ Occurrences(calls, "retriever") = 1
        /\ state.route_decision = "direct" =>
              /\ visited = <<"router", "direct_response", "END">>
              /\ Occurrences(calls, "retriever") = 0
        /\ state.route_decision \in Routes
        /\ Occurrences(calls, "classifier") = 1
        /\ Occurrences(calls, "generator") = 1

\* C6: when the route is retrieval and the retriever call fails, the
\* workflow goes on to generation with an empty context and no documents, and
\* process_query returns with route retrieval instead of raising.
RetrieverFailureDegrades ==
    "retriever" \in failures =>
        /\ pc \in {"generation", "END", "returned"}
        /\ state.context = <<>>
        /\ state.retrieved_documents = <<>>
        /\ pc = "returned" => result.route_taken = "retrieval"

\* the retrieval node has run and left its documents and context in the state
RetrievalDone ==
    /\ Occurrences(visited, "retrieval") = 1
    /\ pc \in {"generation", "END", "returned"}

\* C7: after the retrieval node, retrieved_documents holds the passages the
\* retriever returned, in its order, and the context is, for the i-th
\* passage counted from 1, the pieces "Document ", i, ": ", content, with one
\* "\n\n" between consecutive passages; an empty list gives the empty context
\* and the workflow still reaches generation.
ContextFollowsRetriever ==
    /\ RetrievalDone =>
        LET n == Len(search_results)
            docs == state.retrieved_documents
            ctx == state.context
        IN /\ n <= K
           /\ Len(docs) = n
           /\ \A i \in 1..n :
                /\ docs[i].content = search_results[i].doc.page_content
                /\ docs[i].metadata = search_results[i].doc.metadata
                /\ docs[i].score = search_results[i].score
           /\ Len(ctx) = IF n = 0 THEN 0 ELSE 5 * n - 1
           /\ \A i \in 1..n :
                /\ ctx[5 * (i - 1) + 1] = "Document "
                /\ ctx[5 * (i - 1) + 2] = ToString(i)
                /\ ctx[5 * (i - 1) + 3] = ": "
                /\ ctx[5 * (i - 1) + 4] = search_results[i].doc.page_content
                /\ i < n => ctx[5 * i] = "\n\n"
    /\ (visited = <<"router", "retrieval">> /\ "retriever" \notin failures) =>
          pc = "generation"

\* C7 witness: the retriever returned K passages for the query ranked in
\* descending id order and generation has run on their context.
ContextFollowsRetrieverWitness ==
    /\ pc = "END"
    /\ state.query = "q2"
    /\ Len(search_results) = K
    /\ Len(state.context) = 5 * K - 1

\* C8: when the generator call fails, on either node, the response is the
\* fixed apology string, the invocation does not raise, and the route and the
\* retrieved documents are those the classifier's output and the retriever's
\* result determine, exactly as when the generator succeeds.
GeneratorFailureApologizes ==
    "generator" \in failures =>
        /\ state.response = Apology
        /\ pc \in {"END", "returned"}
        /\ state.route_decision =
              IF SaysRetrieval(decision) THEN "retrieval" ELSE "direct"
        /\ Len(state.retrieved_documents) =
              IF SaysRetrieval(decision) THEN Len(search_results) ELSE 0
        /\ \A i \in 1..Len(state.retrieved_documents) :
              state.retrieved_documents[i] =
                  [content |-> search_results[i].doc.page_content,
                   metadata |-> search_results[i].doc.metadata,
                   score |-> search_results[i].score]
        /\ pc = "returned" =>
              /\ result.response = Apology
              /\ result.route_taken = state.route_decision
              /\ result.retrieved_documents = state.retrieved_documents

\* C8 witness: the generator failed on the generation node after two passages
\* were retrieved, and process_query returned.
GeneratorFailureApologizesWitness ==
    /\ pc = "returned"
    /\ "generator" \in failures
    /\ result.route_taken = "retrieval"
    /\ Len(result.retrieved_documents) = 2
    /\ result.response = Apology

\* C9: an invocation that has reached END has made exactly one telemetry
\* write attempt, after the response was set and before process_query
\* returns, on both routes and whether or not the generator failed; unless
\* the write failed, the table holds exactly one row for the invocation.
OneTelemetryAttempt ==
    pc \in {"END", "returned"} =>
        /\ Occurrences(calls, "telemetry") = 1
        /\ Occurrences(calls, "set_response") = 1
        /\ IndexOf(calls, "set_response") < IndexOf(calls, "telemetry")
        /\ pc = "returned" =>
              /\ Occurrences(calls, "return") = 1
              /\ IndexOf(calls, "telemetry") < IndexOf(calls, "return")
        /\ Cardinality(OwnRows) = IF "telemetry" \in failures THEN 0 ELSE 1

\* C9 witness: a direct-route invocation whose generator failed has returned
\* with its telemetry row written.
OneTelemetryAttemptWitness ==
    /\ pc = "returned"
    /\ state.route_decision = "direct"
    /\ "generator" \in failures
    /\ Cardinality(OwnRows) = 1

\* C10: the telemetry row written for an invocation holds, for each passage
\* returned to the caller and in the same order, that passage's content,
\* score and metadata, and the invocation's query, response, transaction id
\* and session id.
TelemetryCarriesDocuments ==
    pc = "returned" =>
        \A r \in OwnRows :
            LET row == telemetry_logs[r]
            IN /\ row.query = state.query
               /\ row.response = result.response
               /\ row.transaction_id = result.transaction_id
               /\ row.session_id = result.session_id
               /\ Len(row.retrieved_documents) = Len(result.retrieved_documents)
               /\ \A i \in 1..Len(result.retrieved_documents) :
                    /\ row.retrieved_documents[i].content =
                          result.retrieved_documents[i].content
                    /\ row.retrieved_documents[i].score =
                          result.retrieved_documents[i].score
                    /\ row.retrieved_documents[i].metadata =
                          result.retrieved_documents[i].metadata

\* C13: the score map evaluate_response builds holds exactly the eight score
\* keys at every point of the call and when it is returned, for every input
\* (an empty context list and no reference included) and whichever scorers
\* fail.
EvaluateReturnsEightKeys ==
    /\ DOMAIN results = ScoreKeys
    /\ eval_pc = "returned" => DOMAIN eval_result = ScoreKeys

\* C13 witness: a call with an empty context list and no reference, in which
\* one scorer failed and the other measured a score, has returned its map.
EvaluateReturnsEightKeysWitness ==
    /\ eval_pc = "returned"
    /\ eval_args.retrieved_contexts = <<>>
    /\ eval_args.expected_output = NoneTypeValue
    /\ \E i \in Invocations("answer_relevancy") : measure_log[i].raises
    /\ \E i \in Invocations("hallucination") : ~measure_log[i].raises
    /\ DOMAIN eval_result = ScoreKeys

\* C14: in a call with an empty retrieved-context list the faithfulness,
\* context precision, context recall and context relevancy scorers are never
\* invoked and their values stay 0.0, while the answer relevancy and the
\* hallucination scorer have each been invoked once their block is passed.
EmptyContextSkipsContextScorers ==
    (eval_pc # "idle" /\ eval_args.retrieved_contexts = <<>>) =>
        /\ \A m \in ContextScorers :
              /\ Invocations(m) = {}
              /\ results[m] = 0
              /\ eval_pc = "returned" => eval_result[m] = 0
        /\ BlockDone("answer_relevancy") => Invocations("answer_relevancy") # {}
        /\ BlockDone("hallucination") => Invocations("hallucination") # {}

\* C14 witness: a call with an empty context list has returned after the
\* answer relevancy and hallucination scorers measured scores.
EmptyContextSkipsContextScorersWitness ==
    /\ eval_pc = "returned"
    /\ eval_args.retrieved_contexts = <<>>
    /\ eval_result.answer_relevancy = 900
    /\ eval_result.hallucination_score = 400
    /\ eval_result.faithfulness = 0
    /\ eval_result.context_recall = 0

\* C15: whichever scorers fail during one call, the value of each failed
\* scorer is 0.0, the value of each scorer that did not fail is the score it
\* measured, every applicable scorer whose block is passed was invoked
\* exactly once, and the call returns the map it built without raising.
FailedScorerLeavesDefault ==
    /\ \A i \in 1..Len(measure_log) :
          measure_log[i].metric # "store" =>
              results[ResultKey(measure_log[i].metric)] =
                  IF measure_log[i].raises THEN 0 ELSE measure_log[i].score
    /\ \A m \in Applicable :
          BlockDone(m) => Cardinality(Invocations(m)) = 1
    /\ eval_pc # "raised"
    /\ eval_pc = "returned" => eval_result = results

\* C15 witness: the faithfulness scorer and the BLEU scorer failed, context
\* precision measured 0.4 and context recall 0.9, and the call returned with
\* both measured values.
FailedScorerLeavesDefaultWitness ==
    /\ eval_pc = "returned"
    /\ \E i \in Invocations("faithfulness") : measure_log[i].raises
    /\ \E i \in Invocations("bleu") : measure_log[i].raises
    /\ eval_result.faithfulness = 0
    /\ eval_result.bleu_score = 0
    /\ eval_result.context_precision = 400
    /\ eval_result.context_recall = 900
    /\ eval_result.rouge_score = 1000

\* C16: the BLEU and ROUGE scorers are invoked only in a call that was given
\* a reference response, and the value each then stores is the one computed
\* from that reference and the candidate response; in a call without a
\* reference neither is invoked and both values are 0.0.
LexicalScoresNeedReference ==
    eval_pc # "idle" =>
        IF Truthy(eval_args.expected_output)
        THEN /\ \A i \in Invocations("bleu") :
                  ~measure_log[i].raises =>
                      results.bleu_score =
                          sentence_bleu(lower_split(eval_args.expected_output.text),
                                        lower_split(eval_args.response.text))
             /\ \A i \in Invocations("rouge") :
                  ~measure_log[i].raises =>
                      results.rouge_score =
                          rougeL_fmeasure(
                              rouge_tokenize(eval_args.expected_output.text),
                              rouge_tokenize(eval_args.response.text))
             /\ BlockDone("bleu") => Invocations("bleu") # {}
             /\ BlockDone("rouge") => Invocations("rouge") # {}
        ELSE /\ Invocations("bleu") = {}
             /\ Invocations("rouge") = {}
             /\ results.bleu_score = 0
             /\ results.rouge_score = 0
             /\ eval_pc = "returned" =>
                   eval_result.bleu_score = 0 /\ eval_result.rouge_score = 0

\* C16 witness: a call given a five-word reference and a candidate that is
\* its first four words returned BLEU 0.778 and ROUGE 0.888.
LexicalScoresNeedReferenceWitness ==
    /\ eval_pc = "returned"
    /\ eval_args.expected_output = StrValue(TheSkyIsBlueClouds)
    /\ eval_args.response = StrValue(TheSkyIsBlue)
    /\ eval_result.bleu_score = 778
    /\ eval_result.rouge_score = 888

\* C17: a call whose candidate response is equal to the reference response it
\* was given, and whose lexical scorers did not fail, returns BLEU 1.0 and
\* ROUGE 1.0.
ExactMatchScoresOne ==
    ( /\ eval_pc = "returned"
      /\ Truthy(eval_args.expected_output)
      /\ eval_args.response = eval_args.expected_output
      /\ \A i \in Invocations("bleu") \cup Invocations("rouge") :
            ~measure_log[i].raises ) =>
        /\ eval_result.bleu_score = 1000
        /\ eval_result.rouge_score = 1000

\* C11: when the telemetry write of an invocation has failed, process_query
\* still reaches END and returns, and what it returns is the record built from
\* the generator's response, the documents of the retrieval node, the route
\* and the two ids; when the write of the evaluation row has failed,
\* evaluate_response still returns, and what it returns is the score map as
\* it stood before the write; neither call ends in an exception.
PersistenceFailuresSwallowed ==
    /\ "telemetry" \in failures =>
          /\ pc \in {"END", "returned"}
          /\ state.response \in {generate_response(o) : o \in GeneratorOutcomes}
          /\ pc = "returned" =>
                result = [response |-> state.response,
                          transaction_id |-> state.transaction_id,
                          session_id |-> state.session_id,
                          retrieved_documents |->
                              IF state.route_decision = "retrieval"
                              THEN similarity_search(search_results) ELSE <<>>,
                          route_taken |-> state.route_decision]
    /\ \A i \in Invocations("store") :
          /\ eval_pc = "returned"
          /\ eval_result = results
          /\ \A j \in 1..(i - 1) :
                eval_result[ResultKey(measure_log[j].metric)] =
                    IF measure_log[j].raises THEN 0 ELSE measure_log[j].score
          /\ measure_log[i].raises => evaluation_metrics = <<>>

\* C11 witness: the write of the evaluation row failed and evaluate_response
\* returned the map holding the answer relevancy 0.9 it had measured.
PersistenceFailuresSwallowedWitness ==
    /\ eval_pc = "returned"
    /\ \E i \in Invocations("store") : measure_log[i].raises
    /\ eval_result.answer_relevancy = 900
    /\ evaluation_metrics = <<>>

\* C12: the transaction ids of answered chat requests are pairwise
\* different; the id in a request's response is the id of the one telemetry
\* row written for it, whose query and response are that request's, and the
\* id handed to its background evaluation together with that request's
\* query, response and documents; every telemetry row belongs to a request.
TransactionIdJoins ==
    /\ \A i \in Answered :
          LET r == requests[i]
          IN /\ \A j \in Answered \ {i} :
                   requests[j].body.transaction_id # r.body.transaction_id
             /\ r.task.transaction_id = r.body.transaction_id
             /\ r.task.query = r.message
             /\ r.task.response = r.body.response
             /\ r.task.retrieved_contexts = r.body.retrieved_documents
             /\ Cardinality(TelemetryRowsOf(r.body.transaction_id)) <= 1
             /\ \A t \in TelemetryRowsOf(r.body.transaction_id) :
                   /\ telemetry_logs[t].query = r.message
                   /\ telemetry_logs[t].response = r.body.response
                   /\ telemetry_logs[t].session_id = r.body.session_id
    /\ \A t \in 1..Len(telemetry_logs) :
          \E i \in Answered :
              requests[i].body.transaction_id = telemetry_logs[t].transaction_id
    /\ \A e \in 1..Len(evaluation_metrics) :
          \E i \in Answered :
              requests[i].task.transaction_id = evaluation_metrics[e].transaction_id

\* C12 witness: two chat requests with different messages were answered,
\* each has its telemetry row, and the background task of the first has run.
TransactionIdJoinsWitness ==
    /\ Len(requests) = 2
    /\ Answered = {1, 2}
    /\ requests[1].message = "q1"
    /\ requests[2].message = "q2"
    /\ requests[1].task_status = "done"
    /\ requests[2].task_status = "pending"
    /\ Len(requests[2].body.retrieved_documents) = ChatHits
    /\ Cardinality(TelemetryRowsOf(requests[1].body.transaction_id)) = 1
    /\ Cardinality(TelemetryRowsOf(requests[2].body.transaction_id)) = 1

\* C18: the background evaluation of a chat request starts only after
\* process_query has returned and the response has been built, a request
\* answered with an error schedules none, and no step taken afterwards, the
\* failing evaluation included, changes the status or the body the caller
\* received.
EvaluationAfterResponse ==
    /\ [](\A i \in 1..Len(requests) :
            LET r == requests[i]
            IN /\ "evaluate_response_async" \in {r.steps[k] : k \in 1..Len(r.steps)} =>
                     /\ Occurrences(r.steps, "process_query") = 1
                     /\ Occurrences(r.steps, "ChatResponse") = 1
                     /\ IndexOf(r.steps, "process_query")
                            < IndexOf(r.steps, "ChatResponse")
                     /\ IndexOf(r.steps, "ChatResponse")
                            < IndexOf(r.steps, "evaluate_response_async")
               /\ r.task_status # "none" => r.status = 200
               /\ r.task_status = "done" =>
                     "evaluate_response_async" \in {r.steps[k] : k \in 1..Len(r.steps)})
    /\ [][\A i \in 1..Len(requests) :
              /\ requests'[i].status = requests[i].status
              /\ requests'[i].body = requests[i].body]_vars

\* C18 witness: the background evaluation of an answered retrieval request
\* has run and ended in an exception, and the request still holds status 200
\* and the response process_query returned.
EvaluationAfterResponseWitness ==
    \E i \in Answered :
        /\ requests[i].task_status = "done"
        /\ requests[i].steps[Len(requests[i].steps)] = "RuntimeError"
        /\ requests[i].body.route_taken = "retrieval"
        /\ requests[i].body.response = "answer"

\* C19: once the background task of an answered chat request has finished,
\* evaluate_response has been entered for that request.
EvaluationPipelineRuns ==
    \A i \in Answered :
        requests[i].task_status = "done" =>
            "evaluate_response" \in
                {requests[i].steps[k] : k \in 1..Len(requests[i].steps)}

\* C20: the serving process holds one vector store, one LLM client and at
\* most one evaluator, and no chat request or background evaluation
\* constructs one.
ResourcesConstructedOnce ==
    /\ constructed.vector_store = 1
    /\ constructed.llm_client = 1
    /\ constructed.evaluator <= 1
    /\ \A i \in 1..Len(requests) :
          "ChatbotEvaluator" \notin
              {requests[i].steps[k] : k \in 1..Len(requests[i].steps)}

\* the steps a chat request took, and the replies of one endpoint
StepsOf(i) == {requests[i].steps[k] : k \in 1..Len(requests[i].steps)}

RepliesOf(endpoint) ==
    {i \in 1..Len(replies) : replies[i].endpoint = endpoint}

\* C21: a chat request naming a session that does not exist is answered 404
\* without running the workflow, and feedback or an evaluation lookup for a
\* transaction id without a record is answered 404.
NotFoundIs404 ==
    /\ \A i \in 1..Len(requests) :
           requests[i].session_id = UnknownSession =>
               /\ requests[i].status = 404
               /\ "process_query" \notin StepsOf(i)
    /\ \A i \in RepliesOf("feedback") \cup RepliesOf("evaluation") :
           replies[i].arg = UnknownTransaction => replies[i].status = 404

\* the stored documents that carry an id
StoredUnder(doc_id) ==
    {d \in 1..Len(collection) : collection[d].id = doc_id}

\* C22: every request to add a document is answered with a success message
\* and an id under which exactly one document is stored, and the document
\* count is one higher for each such request.
AddDocumentStoresOne ==
    /\ \A i \in RepliesOf("add_document") :
           /\ replies[i].status = 200
           /\ replies[i].message = "Document added successfully"
           /\ Cardinality(StoredUnder(replies[i].value[1])) = 1
    /\ get_collection_count(collection) =
           NumPassages + Cardinality(RepliesOf("add_document"))

\* the result of evaluating an interaction on its own: under each key the
\* score the judge gives that interaction's test case, or the default where
\* the scorer is skipped or fails
OwnResult(args) ==
    [key \in DOMAIN initial_results |->
        LET blocks == {b \in 1..Len(ScorerBlocks) : ScorerBlocks[b].key = key}
        IN IF blocks = {} THEN initial_results[key]
           ELSE LET block == ScorerBlocks[CHOOSE b \in blocks : TRUE]
                    outcome == measure(block.metric, test_case(args))
                IN IF (block.guarded /\ args.retrieved_contexts = <<>>)
                      \/ outcome.raises
                   THEN initial_results[key]
                   ELSE outcome.score]

\* the keys whose block a thread has completed
KeysDone(thread) ==
    {ScorerBlocks[b].key : b \in 1..(Max(thread.block, 1) - 1) \cap
                                  1..Len(ScorerBlocks)}

\* C23: in every evaluation that runs next to others, each score already
\* assigned is the one measured on the evaluation's own interaction, the
\* returned result holds only such scores, and a persisted record holds
\* the scores of the interaction whose transaction id it carries.
OwnScoresOnly ==
    /\ \A t \in 1..Len(eval_threads) :
        LET thread == eval_threads[t]
            own == OwnResult(thread.args)
        IN /\ \A key \in DOMAIN initial_results :
                 thread.results[key] =
                     IF key \in KeysDone(thread) THEN own[key]
                     ELSE initial_results[key]
           /\ thread.block = ReturnedBlock => thread.returned = <<own>>
    /\ \A r \in 1..Len(evaluation_metrics) :
        \A args \in Interactions :
            args.transaction_id = evaluation_metrics[r].transaction_id =>
                evaluation_metrics[r] =
                    evaluation_row(args.transaction_id, OwnResult(args))

\* two evaluations of different interactions have both measured
\* hallucination and neither has read its score yet, each holding its own
\* answer relevancy score from the blocks before
OwnScoresOnlyWitness ==
    /\ Len(eval_threads) >= 2
    /\ eval_threads[1].args # eval_threads[2].args
    /\ \A t \in {1, 2} :
           /\ eval_threads[t].block = Len(ScorerBlocks)
           /\ eval_threads[t].phase = "read"
           /\ eval_threads[t].results["answer_relevancy"] =
                  measure("answer_relevancy",
                          test_case(eval_threads[t].args)).score

\* the sessions a completed delete_session request named
DeletedSessions == {replies[i].arg : i \in RepliesOf("delete_session")}

FeedbackRepliesOf(transaction_id) ==
    {i \in RepliesOf("feedback") : replies[i].arg = transaction_id}

FeedbackRowsOf(transaction_id) ==
    {r \in 1..Len(feedback_logs) :
        feedback_logs[r].transaction_id = transaction_id}

====
